---- MODULE Spec2Model ----
(***************************************************************************)
(* Model of the chat-poc streaming pipeline.                               *)
(*                                                                         *)
(*   - the Go event bus (frontend/bus.go: Bus, Subscribe, Publish),        *)
(*   - the TypeScript backend (backend/server.ts: EventBus and the /chat   *)
(*     handler that forwards bus events to the HTTP response),             *)
(*   - the Go client (frontend: sendMessage's read loop, the bus-to-       *)
(*     program forwarder and model.Update, the transcript reducer).        *)
(*                                                                         *)
(* Several specifications share the module: SpecBus drives the Go bus with *)
(* concurrent callers, SpecServer runs concurrent /chat requests on the    *)
(* JavaScript event loop, SpecClient runs the terminal client against      *)
(* response bodies drawn from a bounded set, SpecBacklog lets the client   *)
(* read a long reply with a reducer that may not be scheduled, and         *)
(* SpecEndToEnd runs the client's first turn against the backend.          *)
(***************************************************************************)
EXTENDS Integers, Sequences, FiniteSets, TLC

VARIABLES
    \* ---- Go bus (Bus struct) ----
    busSubs,      \* b.subscribers: sequence of channels, each a sequence of Events
    busLock,      \* b.lock: 0 when free, else the caller holding it
    \* ---- callers of the Go bus in SpecBus ----
    callerPc,     \* caller -> "idle" | "pub" | "sub"
    callerIdx,    \* caller -> position of the range loop of Publish
    callerEvt,    \* caller -> the event passed to Publish
    nextSerial,   \* payload of the next event a caller publishes
    published,    \* history: events in the order Publish acquired the mutex
    received,     \* history: per subscription, the events dequeued so far
    regAt,        \* history: per subscription, the number of events published
                  \* when it was registered
    \* ---- TypeScript backend (server.ts) ----
    srvAll,       \* Bus.subscribers["*"]: the handlers, in registration order
    srvClock,     \* Date.now()
    srvLog,       \* history: every event passed to EventBus.publish, stamped,
                  \* with the request that published it
    reqPc,        \* request -> "new" | "run" | "done" | "failed" | "rejected"
    reqTodo,      \* request -> the batches of events start() still publishes
    reqWin,       \* history: request -> length of srvLog when it subscribed
                  \* and when its chat.complete had been published
    connState,    \* request -> "none" | "open" | "closed" | "cancelled" | "errored"
    conn,         \* request -> the lines written to the response body
    \* ---- Go client (Bubble Tea program, sendMessage) ----
    mMessages,        \* m.messages: each a sequence of pieces of text
    mStreaming,       \* m.streaming
    mCurrentResponse, \* m.currentResponse, as a sequence of pieces of text
    fwdHeld,          \* the forwarder goroutine of Init: the event it has
                      \* received and is sending to the program (<<>> if none)
    turns,            \* number of accepted user messages (sendMessage commands)
    cmdPc,            \* turn -> "none" | "run" | "returned"
    cmdMsg,           \* turn -> the tea.Msg the command returned and the
                      \* program has not yet taken (<<>> if none)
    reqBody,          \* turn -> the message sendMessage was called with
    outcome,          \* history: turn -> how the request of the turn went
    readerPc,         \* turn -> "none" | "reading" | "done": the read loop
    linesRead,        \* lines ReadBytes has returned, over all connections
    lastRead,         \* the read loop that ran last and what its ReadBytes
                      \* returned
    applied           \* history, kept in SpecEndToEnd: the events the
                      \* forwarder has handed to Update, in order

busVars == <<busSubs, busLock, callerPc, callerIdx, callerEvt, nextSerial,
             published, received, regAt>>

srvVars == <<srvAll, srvClock, srvLog, reqPc, reqTodo, reqWin, connState, conn>>

cliVars == <<mMessages, mStreaming, mCurrentResponse, fwdHeld, turns,
             cmdPc, cmdMsg, reqBody, outcome, readerPc, linesRead, lastRead,
             applied>>

vars == <<busVars, srvVars, cliVars>>

-----------------------------------------------------------------------------
(* Bounds of the model *)

\* subscriptions created in SpecBus
MaxSubs == 2
\* Publish calls made in SpecBus (more than the channel capacity, so that a
\* subscription that is not drained overflows)
MaxPublish == 22
\* events dequeued by the subscriptions' owners in SpecBus (owners are slow:
\* a subscription that is never drained is the case of interest)
MaxReceive == 1

\* concurrent /chat requests in SpecServer
MaxReqs == 2
\* characters of a response text in SpecServer
MaxChars == 2
\* ticks of the backend's clock in SpecServer
MaxClock == 2

\* user messages accepted in SpecClient
MaxTurns == 1
\* lines read from the response bodies in SpecClient, all turns together
MaxLines == 2
\* lines read from the body of a long reply in SpecBacklog (more than the
\* channel capacity, so that a reducer that is not scheduled lets it overflow)
MaxBacklog == 22

(* Program constants *)

\* make(chan Event, 20)
QueueCap == 20

-----------------------------------------------------------------------------
(* Values *)

\* JSON / interface{} values, tagged by kind: a string, a number, an object
\* with a "command" member (held in s), or nil/absent.
Str(s) == [k |-> "str", s |-> s, n |-> 0]
Num(n) == [k |-> "num", s |-> "", n |-> n]
Obj(c) == [k |-> "obj", s |-> c, n |-> 0]
Nil == [k |-> "nil", s |-> "", n |-> 0]

\* type Event struct { Type; Data; Timestamp }
Event(t, d, ts) == [type |-> t, data |-> d, timestamp |-> ts]

\* the zero Event (an unset local)
NoEvent == Event("", Nil, 0)

Range(s) == {s[i] : i \in 1..Len(s)}
LastOf(q) == q[Len(q)]

-----------------------------------------------------------------------------
(* Go bus: Subscribe and Publish *)

\* The select in Publish has a default case: it never waits for room.
SelectReadyBlocking(ch) == Len(ch) < QueueCap
SelectReady(ch) == TRUE

\* select { case ch <- event: default: } on a channel of capacity QueueCap
TrySendOffByOne(ch, e) == IF Len(ch) < QueueCap - 1 THEN Append(ch, e) ELSE ch
TrySendDropOldest(ch, e) ==
    IF Len(ch) < QueueCap THEN Append(ch, e) ELSE Append(Tail(ch), e)
TrySendFront(ch, e) == IF Len(ch) < QueueCap THEN <<e>> \o ch ELSE ch
TrySendUnbounded(ch, e) == Append(ch, e)
TrySend(ch, e) == IF Len(ch) < QueueCap THEN Append(ch, e) ELSE ch

\* for _, ch := range b.subscribers: the loop goes on to the next channel
\* whether or not the event was enqueued.
NextIndexReturnOnFull(i, n, sent) == IF sent THEN i + 1 ELSE n + 1
NextIndex(i, n, sent) == i + 1

\* (a Subscribe that hands the new subscriber what the first one has pending)
RegisterChanReplay(subs) == Append(subs, IF subs = <<>> THEN <<>> ELSE subs[1])
\* b.subscribers = append(b.subscribers, ch), ch := make(chan Event, 20)
RegisterChan(subs) == Append(subs, <<>>)

\* the whole of Publish, as it runs under the mutex with no other caller
RECURSIVE FanOutFrom(_, _, _)
FanOutFrom(subs, e, i) ==
    IF i > Len(subs) THEN subs
    ELSE IF ~SelectReady(subs[i]) THEN subs
    ELSE LET ch == TrySend(subs[i], e)
             sent == Len(ch) > Len(subs[i]) \/ ch # subs[i]
         IN FanOutFrom([subs EXCEPT ![i] = ch], e,
                       NextIndex(i, Len(subs), sent))
BusPublish(subs, e) == FanOutFrom(subs, e, 1)

-----------------------------------------------------------------------------
(* Wire format: JSON.stringify(event) + "\n" *)

\* A line of a response body: ok says that the text before the line break is
\* a JSON object, members are its members in order (name, value), nl says
\* that the line is ended by "\n".
Line(ok, members, nl) == [ok |-> ok, members |-> members, nl |-> nl]

\* JSON.stringify(event): the own properties in insertion order (type, data,
\* then the timestamp publish() adds); a property that is undefined is left
\* out.
JsonStringify(e) ==
    <<<<"type", Str(e.type)>>>>
    \o (IF e.data = Nil THEN <<>> ELSE <<<<"data", e.data>>>>)
    \o <<<<"timestamp", Num(e.timestamp)>>>>

\* encoder.encode(JSON.stringify(event) + "\n")
EncodeLine(e) == Line(TRUE, JsonStringify(e), TRUE)

-----------------------------------------------------------------------------
(* TypeScript backend: EventBus and the /chat handler *)

\* concurrent /chat requests
Reqs == 1..MaxReqs

\* the message of a request; detectToolCall matches it against the patterns
Messages == {"hello", "list files", "where: pwd"}
detectToolCall(message) ==
    CASE message = "list files" -> "ls"
      [] message = "where: pwd" -> "pwd"
      [] OTHER -> "none"

\* the characters of a response text of n characters (generateResponse and
\* analyzeToolOutput are opaque: only the length of their text matters here)
Alphabet == <<"H", "i", "!", "?">>
CharEvents(n) == [i \in 1..n |-> [type |-> "chat.char", data |-> Str(Alphabet[i])]]

\* The events start() publishes, grouped by the awaits between them: each
\* batch is published without yielding to the event loop.
\*   tool turn:  system.info, tool.start | await executeTool |
\*               tool.output, tool.end, first char | await | char | ... |
\*               chat.complete
\*   plain turn: first char | await | char | ... | await | chat.complete
Batches(message, n) ==
    LET cmd == detectToolCall(message)
        chars == CharEvents(n)
        rest == [i \in 1..(n - 1) |-> <<chars[i + 1]>>]
        last == <<<<[type |-> "chat.complete", data |-> Nil]>>>>
    IN IF cmd # "none"
       THEN <<<<[type |-> "system.info", data |-> Str("Executing")],
                [type |-> "tool.start", data |-> Obj(cmd)]>>,
              <<[type |-> "tool.output", data |-> Str("out")],
                [type |-> "tool.end", data |-> Obj(cmd)],
                chars[1]>>>> \o rest \o last
       ELSE <<<<chars[1]>>>> \o rest \o last

\* the handler of Bus.subscribeAll((event) => console.log(...)); the handler
\* of a request is named by the request
Logger == 0

\* Bus.subscribeAll(handler): push onto subscribers["*"]
SubscribeAll(all, h) == Append(all, h)
\* the function subscribe() returns: filter the handler out
Unsubscribe(all, h) == SelectSeq(all, LAMBDA x : x # h)

\* The bus as publish() sees and changes it: the state of the connections
\* and whether a handler has thrown.
\* One handler call. Logger is the console logger (registered first, at
\* module load); a request's handler enqueues the encoded event on its stream
\* controller, which throws once the stream is no longer readable.
CallHandler(st, h, e) ==
    IF h = Logger THEN st
    ELSE IF st.connState[h] = "open"
         THEN [st EXCEPT !.conn[h] = Append(@, EncodeLine(e))]
         ELSE [st EXCEPT !.thrown = TRUE]

\* for (const handler of this.subscribers["*"]) handler(event): an exception
\* of a handler leaves the loop and publish().
RECURSIVE CallHandlers(_, _, _, _)
CallHandlers(st, all, i, e) ==
    IF i > Len(all) \/ st.thrown THEN st
    ELSE CallHandlers(CallHandler(st, all[i], e), all, i + 1, e)

\* publish(event): stamp, then call the handlers (the handlers registered
\* for the event's own type come first; the only one, for chat.char, does
\* nothing).
Publish(st, all, e, now) ==
    CallHandlers(st, all, 1, Event(e.type, e.data, now))

\* a batch of publish() calls by request r; the first exception ends it
RECURSIVE PublishBatch(_, _, _, _, _)
PublishBatch(st, all, batch, now, r) ==
    IF batch = <<>> \/ st.thrown THEN st
    ELSE LET e == Head(batch)
             st1 == [st EXCEPT !.log = Append(@, [evt |-> Event(e.type, e.data, now),
                                                  by |-> r])]
         IN PublishBatch(Publish(st1, all, e, now), all, Tail(batch), now, r)

InitSrvVars ==
    /\ srvAll = <<Logger>>
    /\ srvClock = 1
    /\ srvLog = <<>>
    /\ reqPc = [r \in Reqs |-> "new"]
    /\ reqTodo = [r \in Reqs |-> <<>>]
    /\ reqWin = [r \in Reqs |-> [from |-> 0, to |-> 0]]
    /\ connState = [r \in Reqs |-> "none"]
    /\ conn = [r \in Reqs |-> <<>>]

\* One run of start() between two awaits, for request r with the wildcard
\* list all and the connections in state cs: publish the next batch; after
\* the last batch (chat.complete) unsubscribe and close the controller. An
\* exception rejects start(): the stream is errored, and nothing after the
\* throwing statement runs (the handler stays subscribed).
RunBatch(r, all, todo, cs) ==
    LET st0 == [connState |-> cs, conn |-> conn, log |-> srvLog, thrown |-> FALSE]
        st == PublishBatch(st0, all, Head(todo), srvClock, r)
        final == Len(todo) = 1
        from == IF reqPc[r] = "new" THEN Len(srvLog) ELSE reqWin[r].from
    IN /\ srvLog' = st.log
       /\ conn' = st.conn
       /\ IF st.thrown
          THEN /\ reqPc' = [reqPc EXCEPT ![r] = "failed"]
               /\ reqTodo' = [reqTodo EXCEPT ![r] = <<>>]
               /\ connState' = [cs EXCEPT ![r] = IF @ = "open" THEN "errored" ELSE @]
               /\ srvAll' = all
               /\ reqWin' = [reqWin EXCEPT ![r] = [from |-> from, to |-> 0]]
          ELSE /\ reqPc' = [reqPc EXCEPT ![r] = IF final THEN "done" ELSE "run"]
               /\ reqTodo' = [reqTodo EXCEPT ![r] = Tail(todo)]
               /\ connState' = [cs EXCEPT ![r] = IF final /\ @ = "open" THEN "closed" ELSE @]
               /\ srvAll' = IF final THEN Unsubscribe(all, r) ELSE all
               /\ reqWin' = [reqWin EXCEPT
                      ![r] = [from |-> from, to |-> IF final THEN Len(st.log) ELSE 0]]

\* POST /chat: req.json() succeeds, the stream is constructed and start()
\* runs up to its first await: subscribe, then the first batch.
ReqStart(r, message, n) ==
    /\ reqPc[r] = "new"
    /\ \A q \in Reqs : q < r => reqPc[q] # "new"
    /\ RunBatch(r, SubscribeAll(srvAll, r), Batches(message, n),
                [connState EXCEPT ![r] = "open"])
    /\ UNCHANGED <<srvClock, busVars, cliVars>>

\* start() resumes after an await (executeTool or a timer)
ReqResume(r) ==
    /\ reqPc[r] = "run"
    /\ RunBatch(r, srvAll, reqTodo[r], connState)
    /\ UNCHANGED <<srvClock, busVars, cliVars>>

\* POST /chat whose body is not JSON: req.json() throws, the catch answers
\* 500 and no stream exists.
ReqBadJson(r) ==
    /\ reqPc[r] = "new"
    /\ \A q \in Reqs : q < r => reqPc[q] # "new"
    /\ reqPc' = [reqPc EXCEPT ![r] = "rejected"]
    /\ UNCHANGED <<srvAll, srvClock, srvLog, reqTodo, reqWin, connState, conn, busVars, cliVars>>

\* the client of request r goes away: the response stream is cancelled
ClientGone(r) ==
    /\ connState[r] = "open"
    /\ reqPc[r] = "run"
    /\ connState' = [connState EXCEPT ![r] = "cancelled"]
    /\ UNCHANGED <<srvAll, srvClock, srvLog, reqPc, reqTodo, reqWin, conn, busVars, cliVars>>

\* time passes between two turns of the event loop
Tick ==
    /\ srvClock < MaxClock
    /\ srvClock' = srvClock + 1
    /\ UNCHANGED <<srvAll, srvLog, reqPc, reqTodo, reqWin, connState, conn, busVars, cliVars>>

-----------------------------------------------------------------------------
(* Go client: decoding a line *)

\* (a decoder that stores nothing for a JSON object)
GoValueNoObjects(v) == IF v.k \in {"null", "obj"} THEN Nil ELSE v

\* the interface{} value json.Unmarshal stores for a JSON value
GoValue(v) == IF v.k = "null" THEN Nil ELSE v

\* json.Unmarshal of one member into the Event struct: "type" wants a string,
\* "timestamp" an integer, "data" takes anything; null leaves the field as it
\* is, other names are ignored. A value of the wrong kind is an
\* UnmarshalTypeError: the field is skipped and decoding goes on.
UnmarshalMember(d, m) ==
    LET key == m[1]
        v == m[2]
    IN CASE key = "type" ->
              IF v.k = "str" THEN [d EXCEPT !.evt.type = v.s]
              ELSE IF v.k = "null" THEN d ELSE [d EXCEPT !.err = TRUE]
         [] key = "data" -> [d EXCEPT !.evt.data = GoValue(v)]
         [] key = "timestamp" ->
              IF v.k = "num" THEN [d EXCEPT !.evt.timestamp = v.n]
              ELSE IF v.k = "null" THEN d ELSE [d EXCEPT !.err = TRUE]
         [] OTHER -> d

RECURSIVE UnmarshalMembers(_, _)
UnmarshalMembers(d, ms) ==
    IF ms = <<>> THEN d ELSE UnmarshalMembers(UnmarshalMember(d, Head(ms)), Tail(ms))

\* var evt Event; err := json.Unmarshal(line, &evt)
Unmarshal(line) ==
    IF ~line.ok THEN [err |-> TRUE, evt |-> NoEvent]
    ELSE UnmarshalMembers([err |-> FALSE, evt |-> NoEvent], line.members)

\* (the read loop without the return after a read error that is not io.EOF)
ReadLoopBodyNoReturn(res) ==
    IF res.err = "eof"
    THEN [pubs |-> <<Event("stream_end", Nil, 0)>>, stop |-> TRUE]
    ELSE IF res.err # "none"
    THEN [pubs |-> <<Event("stream_err", Str(res.err), 0)>>, stop |-> FALSE]
    ELSE LET d == Unmarshal(res.line)
         IN IF d.err
            THEN [pubs |-> <<Event("stream_err", Str("Invalid JSON"), 0)>>,
                  stop |-> FALSE]
            ELSE [pubs |-> <<d.evt>>, stop |-> FALSE]

\* (the read loop without the continue after a decode failure)
ReadLoopBodyNoContinue(res) ==
    IF res.err = "eof"
    THEN [pubs |-> <<Event("stream_end", Nil, 0)>>, stop |-> TRUE]
    ELSE IF res.err # "none"
    THEN [pubs |-> <<Event("stream_err", Str(res.err), 0)>>, stop |-> TRUE]
    ELSE LET d == Unmarshal(res.line)
         IN IF d.err
            THEN [pubs |-> <<Event("stream_err", Str("Invalid JSON"), 0), d.evt>>,
                  stop |-> FALSE]
            ELSE [pubs |-> <<d.evt>>, stop |-> FALSE]

\* One iteration of the read loop on what ReadBytes returned: the events it
\* publishes on appBus, in order, and whether the loop returns.
ReadLoopBody(res) ==
    IF res.err = "eof"
    THEN [pubs |-> <<Event("stream_end", Nil, 0)>>, stop |-> TRUE]
    ELSE IF res.err # "none"
    THEN [pubs |-> <<Event("stream_err", Str(res.err), 0)>>, stop |-> TRUE]
    ELSE LET d == Unmarshal(res.line)
         IN IF d.err
            THEN [pubs |-> <<Event("stream_err", Str("Invalid JSON"), 0)>>,
                  stop |-> FALSE]
            ELSE [pubs |-> <<d.evt>>, stop |-> FALSE]

\* (sendMessage without the return after the status check)
SendMessageResultNoReturn(how) ==
    CASE how = "connect_err" ->
           [msg |-> <<Event("stream_err", Str("Failed to connect to server"), 0)>>,
            loop |-> FALSE]
      [] how \in {"status_500", "status_404"} ->
           [msg |-> <<>>, loop |-> TRUE]
      [] OTHER -> [msg |-> <<>>, loop |-> TRUE]

\* sendMessage up to the go statement, by how the request went: the tea.Msg
\* it returns (<<>> for nil) and whether it starts the read loop.
SendMessageResult(how) ==
    CASE how = "marshal_err" ->
           [msg |-> <<Event("stream_err", Str("Failed to encode message"), 0)>>,
            loop |-> FALSE]
      [] how = "request_err" ->
           [msg |-> <<Event("stream_err", Str("Failed to create request"), 0)>>,
            loop |-> FALSE]
      [] how = "connect_err" ->
           [msg |-> <<Event("stream_err", Str("Failed to connect to server"), 0)>>,
            loop |-> FALSE]
      [] how = "status_500" ->
           [msg |-> <<Event("stream_err", Str("Server error: 500"), 0)>>,
            loop |-> FALSE]
      [] how = "status_404" ->
           [msg |-> <<Event("stream_err", Str("Server error: 404"), 0)>>,
            loop |-> FALSE]
      [] OTHER -> [msg |-> <<>>, loop |-> TRUE]

\* how a request can go: client.Do fails, the status is not 200, or the
\* status is 200 (json.Marshal of a map of strings and http.NewRequest with
\* a constant method and URL do not fail)
Outcomes == {"connect_err", "status_500", "status_200"}

-----------------------------------------------------------------------------
(* Go client: the response body *)

\* the timestamp the backend stamped on the events of a body
WireTime == 1

\* lines the read loop may find in a response body: the backend's events,
\* and lines that are not an encoded event
ProducerEvents ==
    {Event("chat.char", Str("H"), WireTime),
     Event("chat.char", Str("i"), WireTime),
     Event("chat.complete", Nil, WireTime),
     Event("system.info", Str("Executing"), WireTime),
     Event("tool.start", Obj("ls"), WireTime),
     Event("tool.output", Str("out"), WireTime),
     Event("tool.end", Obj("ls"), WireTime)}
EventLines == {EncodeLine(e) : e \in ProducerEvents}
\* not JSON at all
GarbageLine == Line(FALSE, <<>>, TRUE)
\* a JSON object whose timestamp is a string
BadTimestampLine ==
    Line(TRUE, <<<<"type", Str("chat.char")>>, <<"data", Str("X")>>,
                 <<"timestamp", Str("soon")>>>>, TRUE)
BodyLines == EventLines \cup {GarbageLine, BadTimestampLine}

\* http.Client{Timeout: 60 * time.Second}, in seconds: the time limit of a
\* request made with the client, which runs until the response body has
\* been read; zero means no limit
ClientTimeout == 60

\* what ReadBytes('\n') can return: a line with its line break; at the end of
\* the body io.EOF, with the bytes after the last line break if there are
\* any; or another error (connection reset, the client's Timeout)
ReadResults ==
    {[line |-> l, err |-> "none"] : l \in BodyLines}
    \cup {[line |-> Line(FALSE, <<>>, FALSE), err |-> "eof"],
          [line |-> [EncodeLine(Event("chat.complete", Nil, WireTime))
                        EXCEPT !.nl = FALSE], err |-> "eof"],
          [line |-> Line(FALSE, <<>>, FALSE), err |-> "read error"]}
    \cup (IF ClientTimeout > 0
          THEN {[line |-> Line(FALSE, <<>>, FALSE), err |-> "timeout"]}
          ELSE {})
NoRead == [turn |-> 0, res |-> [line |-> Line(FALSE, <<>>, FALSE), err |-> "none"]]

-----------------------------------------------------------------------------
(* Go client: the Bubble Tea program *)

Turns == 1..MaxTurns

\* values of the text input when Enter is pressed
Inputs == {"", "  ", " hi "}
\* (trimming on the left only)
TrimSpaceLeft(v) == IF v = " hi " THEN "hi " ELSE ""
\* strings.TrimSpace
TrimSpace(v) == IF v = " hi " THEN "hi" ELSE ""

\* (a stream_err case that keeps the buffer)
OnStreamErrKeepBuffer(m, v) ==
    [m EXCEPT !.messages = IF v.data.k = "str"
                           THEN Append(@, <<"Error: ", v.data.s>>) ELSE @,
              !.streaming = FALSE]
\* case "stream_err" of model.Update
OnStreamErr(m, v) ==
    [m EXCEPT !.messages = IF v.data.k = "str"
                           THEN Append(@, <<"Error: ", v.data.s>>) ELSE @,
              !.currentResponse = <<>>,
              !.streaming = FALSE]

\* (a chat.complete case that starts the transcript again with the reply)
OnCompleteRestartsTranscript(m, v) ==
    [m EXCEPT !.messages = IF m.currentResponse # <<>>
                           THEN <<<<"Bot: ">> \o m.currentResponse>>
                           ELSE @,
              !.currentResponse = <<>>,
              !.streaming = FALSE]
\* case "chat.complete" of model.Update
OnComplete(m, v) ==
    [m EXCEPT !.messages = IF m.currentResponse # <<>>
                           THEN Append(@, <<"Bot: ">> \o m.currentResponse)
                           ELSE @,
              !.currentResponse = <<>>,
              !.streaming = FALSE]

\* (a tool.output case that puts the block in place of the buffer)
OnToolOutputReplaces(m, v) ==
    IF v.data.k = "str"
    THEN [m EXCEPT !.currentResponse = <<"[fence]\n", v.data.s, "\n[fence]\n">>]
    ELSE m
\* case "tool.output" of model.Update
OnToolOutput(m, v) ==
    IF v.data.k = "str"
    THEN [m EXCEPT !.currentResponse = @ \o <<"[fence]\n", v.data.s, "\n[fence]\n">>]
    ELSE m

\* (a switch whose default ends the turn)
OnOtherTypeEndsTurn(m, v) == [m EXCEPT !.streaming = FALSE]
\* a type the switch of model.Update has no case for
OnOtherType(m, v) == m

\* model.Update for an Event: the new model ("[fence]" stands for the three
\* backquotes of the format string, the tool emoji is left out)
UpdateEvent(m, v) ==
    CASE v.type = "chat.char" ->
           IF v.data.k = "str"
           THEN [m EXCEPT !.currentResponse = @ \o <<v.data.s>>] ELSE m
      [] v.type = "chat.complete" -> OnComplete(m, v)
      [] v.type = "tool.start" ->
           IF v.data.k = "obj"
           THEN [m EXCEPT !.currentResponse = @ \o <<"\n\nExecuting: ", v.data.s, "\n">>]
           ELSE m
      [] v.type = "tool.output" -> OnToolOutput(m, v)
      [] v.type = "tool.end" ->
           [m EXCEPT !.currentResponse = @ \o <<"\n">>]
      [] v.type = "stream_err" -> OnStreamErr(m, v)
      [] OTHER -> OnOtherType(m, v)

\* (an Enter that does not look at m.streaming)
EnterAcceptedAlways(m, v) == TrimSpace(v) # ""
\* model.Update for KeyEnter with v in the text input: whether the message
\* is sent
EnterAccepted(m, v) == ~m.streaming /\ TrimSpace(v) # ""

\* model.Update for KeyEnter with v in the text input: the new model (the
\* text input, cleared when the message is sent, is not part of the state
\* here: what it holds at the next Enter is again the user's choice)
UpdateEnter(m, v) ==
    IF EnterAccepted(m, v)
    THEN [m EXCEPT !.messages = Append(@, <<"You: ", TrimSpace(v)>>),
                   !.streaming = TRUE]
    ELSE m

\* the model value held by the program
Model == [messages |-> mMessages, streaming |-> mStreaming,
          currentResponse |-> mCurrentResponse]

SetModel(m) ==
    /\ mMessages' = m.messages
    /\ mStreaming' = m.streaming
    /\ mCurrentResponse' = m.currentResponse

\* (a Publish that waits for room in the channel)
PublishReturnsWhenRoom(subs) == \A i \in 1..Len(subs) : Len(subs[i]) < QueueCap
\* every select of Publish finds its case or the default ready
PublishReturns(subs) == \A i \in 1..Len(subs) : SelectReady(subs[i])

RECURSIVE PublishAll(_, _)
PublishAll(subs, evts) ==
    IF evts = <<>> THEN subs ELSE PublishAll(BusPublish(subs, Head(evts)), Tail(evts))

\* initialModel, then Init: the program subscribes to appBus
InitCliVars ==
    /\ mMessages = <<>>
    /\ mStreaming = FALSE
    /\ mCurrentResponse = <<>>
    /\ fwdHeld = <<>>
    /\ turns = 0
    /\ cmdPc = [t \in Turns |-> "none"]
    /\ cmdMsg = [t \in Turns |-> <<>>]
    /\ reqBody = [t \in Turns |-> ""]
    /\ outcome = [t \in Turns |-> "none"]
    /\ readerPc = [t \in Turns |-> "none"]
    /\ linesRead = 0
    /\ lastRead = NoRead
    /\ applied = <<>>

cliBusUnused == <<busLock, callerPc, callerIdx, callerEvt, nextSerial, published,
                  received, regAt>>

\* the user has typed v and presses Enter: Update(KeyEnter); an accepted
\* message starts the sendMessage command
PressEnter(v) ==
    LET m == Model
    IN /\ SetModel(UpdateEnter(m, v))
       /\ IF EnterAccepted(m, v)
          THEN /\ turns < MaxTurns
               /\ turns' = turns + 1
               /\ cmdPc' = [cmdPc EXCEPT ![turns + 1] = "run"]
               /\ reqBody' = [reqBody EXCEPT ![turns + 1] = TrimSpace(v)]
          ELSE UNCHANGED <<turns, cmdPc, reqBody>>
       /\ UNCHANGED <<fwdHeld, cmdMsg, outcome, readerPc, linesRead, lastRead,
                      applied, busVars, srvVars>>

\* the command of turn t runs sendMessage's function up to its return
CmdRun(t, how) ==
    /\ cmdPc[t] = "run"
    /\ LET res == SendMessageResult(how)
       IN /\ cmdMsg' = [cmdMsg EXCEPT ![t] = res.msg]
          /\ readerPc' = [readerPc EXCEPT ![t] = IF res.loop THEN "reading" ELSE @]
    /\ cmdPc' = [cmdPc EXCEPT ![t] = "returned"]
    /\ outcome' = [outcome EXCEPT ![t] = how]
    /\ UNCHANGED <<mMessages, mStreaming, mCurrentResponse, fwdHeld, turns,
                   reqBody, linesRead, lastRead, applied, busVars, srvVars>>

\* Update(msg) for the message a command returned
UpdateCmdMsg(t) ==
    /\ cmdMsg[t] # <<>>
    /\ SetModel(UpdateEvent(Model, cmdMsg[t][1]))
    /\ cmdMsg' = [cmdMsg EXCEPT ![t] = <<>>]
    /\ UNCHANGED <<fwdHeld, turns, cmdPc, reqBody, outcome, readerPc, linesRead,
                   lastRead, applied, busVars, srvVars>>

\* one iteration of the read loop of turn t on what ReadBytes returned
ReadIteration(t, res) ==
    /\ readerPc[t] = "reading"
    /\ LET body == ReadLoopBody(res)
       IN /\ PublishReturns(busSubs)
          /\ busSubs' = PublishAll(busSubs, body.pubs)
          /\ readerPc' = [readerPc EXCEPT ![t] = IF body.stop THEN "done" ELSE @]
    /\ linesRead' = IF res.err = "none" THEN linesRead + 1 ELSE linesRead
    /\ lastRead' = [turn |-> t, res |-> res]
    /\ UNCHANGED <<mMessages, mStreaming, mCurrentResponse, fwdHeld, turns,
                   cmdPc, cmdMsg, reqBody, outcome, applied, cliBusUnused, srvVars>>

\* the read loop of turn t: ReadBytes returns, the iteration runs
ReadStep(t, res) ==
    /\ res.err = "none" => linesRead < MaxLines
    /\ ReadIteration(t, res)

\* the line of one character of a long reply
CharLine == [line |-> EncodeLine(Event("chat.char", Str("H"), WireTime)), err |-> "none"]

\* the read loop of turn t reads the next line of a long reply
ReadBacklog(t) ==
    /\ linesRead < MaxBacklog
    /\ ReadIteration(t, CharLine)

\* (a forwarder that does not wait for Send: go globalProgram.Send(evt))
SendReturnedAlways(held) == TRUE
\* the forwarder is back at the range clause: Send has handed the event it
\* held to the program's loop (the message channel is unbuffered)
SendReturned(held) == held = <<>>

\* (a receive that takes the newest event of the channel)
ChanReceiveNewest(ch) == [evt |-> ch[Len(ch)], rest |-> SubSeq(ch, 1, Len(ch) - 1)]
\* evt := <-ch on a channel that is not empty: the oldest event, and what
\* stays in the channel
ChanReceive(ch) == [evt |-> Head(ch), rest |-> Tail(ch)]

\* the forwarder: for evt := range ch
ForwardReceive ==
    /\ SendReturned(fwdHeld)
    /\ busSubs[1] # <<>>
    /\ fwdHeld' = <<ChanReceive(busSubs[1]).evt>>
    /\ busSubs' = [busSubs EXCEPT ![1] = ChanReceive(@).rest]
    /\ UNCHANGED <<mMessages, mStreaming, mCurrentResponse, turns, cmdPc,
                   cmdMsg, reqBody, outcome, readerPc, linesRead, lastRead,
                   applied, cliBusUnused, srvVars>>

\* globalProgram.Send(evt) completes and the program runs Update(evt)
ApplyHeld ==
    /\ fwdHeld # <<>>
    /\ SetModel(UpdateEvent(Model, fwdHeld[1]))
    /\ fwdHeld' = <<>>
    /\ UNCHANGED <<turns, cmdPc, cmdMsg, reqBody, outcome, readerPc, linesRead,
                   lastRead, busVars, srvVars>>

UpdateForwarded == ApplyHeld /\ UNCHANGED applied

-----------------------------------------------------------------------------
(* SpecBus: concurrent callers of one Go bus *)

\* two goroutines call Subscribe and Publish concurrently
Callers == {1, 2}

InitBusVars ==
    /\ busSubs = <<>>
    /\ busLock = 0
    /\ callerPc = [c \in Callers |-> "idle"]
    /\ callerIdx = [c \in Callers |-> 0]
    /\ callerEvt = [c \in Callers |-> NoEvent]
    /\ nextSerial = 1
    /\ published = <<>>
    /\ received = <<>>
    /\ regAt = <<>>

\* (a Lock that never waits)
MutexFreeAlways(l) == TRUE
\* b.lock.Lock() returns when no caller holds the mutex
MutexFree(l) == l = 0

\* Subscribe: b.lock.Lock()
SubscribeLock(c) ==
    /\ callerPc[c] = "idle"
    /\ MutexFree(busLock)
    /\ Len(busSubs) < MaxSubs
    /\ busLock' = c
    /\ callerPc' = [callerPc EXCEPT ![c] = "sub"]
    /\ UNCHANGED <<busSubs, callerIdx, callerEvt, nextSerial, published, received,
                   regAt, srvVars, cliVars>>

\* Subscribe: make, append, return (the deferred Unlock runs)
SubscribeRegister(c) ==
    /\ callerPc[c] = "sub"
    /\ busLock = c
    /\ busSubs' = RegisterChan(busSubs)
    /\ received' = Append(received, <<>>)
    /\ regAt' = Append(regAt, Len(published))
    /\ busLock' = 0
    /\ callerPc' = [callerPc EXCEPT ![c] = "idle"]
    /\ UNCHANGED <<callerIdx, callerEvt, nextSerial, published, srvVars, cliVars>>

\* Publish(event): b.lock.Lock(); the caller passes an event of its own,
\* here one with a fresh numeric payload.
PublishLock(c) ==
    /\ callerPc[c] = "idle"
    /\ MutexFree(busLock)
    /\ nextSerial <= MaxPublish
    /\ LET e == Event("system.info", Num(nextSerial), 0)
       IN /\ callerEvt' = [callerEvt EXCEPT ![c] = e]
          /\ published' = Append(published, e)
    /\ nextSerial' = nextSerial + 1
    /\ busLock' = c
    /\ callerPc' = [callerPc EXCEPT ![c] = "pub"]
    /\ callerIdx' = [callerIdx EXCEPT ![c] = 1]
    /\ UNCHANGED <<busSubs, received, regAt, srvVars, cliVars>>

\* Publish: one iteration of the range loop, the select on one channel
PublishOffer(c) ==
    /\ callerPc[c] = "pub"
    /\ busLock = c
    /\ callerIdx[c] <= Len(busSubs)
    /\ LET i == callerIdx[c]
           ch == TrySend(busSubs[i], callerEvt[c])
       IN /\ SelectReady(busSubs[i])
          /\ busSubs' = [busSubs EXCEPT ![i] = ch]
          /\ callerIdx' = [callerIdx EXCEPT
                 ![c] = NextIndex(i, Len(busSubs), ch # busSubs[i])]
    /\ UNCHANGED <<busLock, callerPc, callerEvt, nextSerial, published, received,
                   regAt, srvVars, cliVars>>

\* Publish: the loop is over, the deferred Unlock runs
PublishUnlock(c) ==
    /\ callerPc[c] = "pub"
    /\ busLock = c
    /\ callerIdx[c] > Len(busSubs)
    /\ busLock' = 0
    /\ callerPc' = [callerPc EXCEPT ![c] = "idle"]
    /\ callerIdx' = [callerIdx EXCEPT ![c] = 0]
    /\ callerEvt' = [callerEvt EXCEPT ![c] = NoEvent]
    /\ UNCHANGED <<busSubs, nextSerial, published, received, regAt, srvVars, cliVars>>

RECURSIVE SumLen(_)
SumLen(ss) == IF ss = <<>> THEN 0 ELSE Len(Head(ss)) + SumLen(Tail(ss))

\* the owner of subscription i receives from its channel
Receive(i) ==
    /\ i \in 1..Len(busSubs)
    /\ SumLen(received) < MaxReceive
    /\ busSubs[i] # <<>>
    /\ received' = [received EXCEPT ![i] = Append(@, Head(busSubs[i]))]
    /\ busSubs' = [busSubs EXCEPT ![i] = Tail(@)]
    /\ UNCHANGED <<busLock, callerPc, callerIdx, callerEvt, nextSerial, published,
                   regAt, srvVars, cliVars>>

CallerStep(c) ==
    \/ SubscribeLock(c)
    \/ SubscribeRegister(c)
    \/ PublishLock(c)
    \/ PublishOffer(c)
    \/ PublishUnlock(c)

-----------------------------------------------------------------------------
(* Specifications *)

\* the client's appBus after model.Init has subscribed
InitAppBus ==
    /\ busSubs = RegisterChan(<<>>)
    /\ busLock = 0
    /\ callerPc = [c \in Callers |-> "idle"]
    /\ callerIdx = [c \in Callers |-> 0]
    /\ callerEvt = [c \in Callers |-> NoEvent]
    /\ nextSerial = 1
    /\ published = <<>>
    /\ received = <<<<>>>>
    /\ regAt = <<0>>

InitBus == InitBusVars /\ InitSrvVars /\ InitCliVars
InitServer == InitBusVars /\ InitSrvVars /\ InitCliVars

NextBus ==
    \/ \E c \in Callers : SubscribeLock(c)
    \/ \E c \in Callers : SubscribeRegister(c)
    \/ \E c \in Callers : PublishLock(c)
    \/ \E c \in Callers : PublishOffer(c)
    \/ \E c \in Callers : PublishUnlock(c)
    \/ \E i \in 1..MaxSubs : Receive(i)

SpecBus == InitBus /\ [][NextBus]_vars

\* The Go scheduler runs every runnable goroutine: a caller inside Subscribe
\* or Publish goes on whenever its next statement can execute.
HolderStep(c) == SubscribeRegister(c) \/ PublishOffer(c) \/ PublishUnlock(c)
SpecBusFair == SpecBus /\ \A c \in Callers : WF_vars(HolderStep(c))

NextServer ==
    \/ \E r \in Reqs : \E message \in Messages : \E n \in 1..MaxChars :
           ReqStart(r, message, n)
    \/ \E r \in Reqs : ReqResume(r)
    \/ \E r \in Reqs : ReqBadJson(r)
    \/ \E r \in Reqs : ClientGone(r)
    \/ Tick

SpecServer == InitServer /\ [][NextServer]_vars

InitClient == InitAppBus /\ InitSrvVars /\ InitCliVars

NextClient ==
    \/ \E v \in Inputs : PressEnter(v)
    \/ \E t \in Turns : \E how \in Outcomes : CmdRun(t, how)
    \/ \E t \in Turns : UpdateCmdMsg(t)
    \/ \E t \in Turns : \E res \in ReadResults : ReadStep(t, res)
    \/ ForwardReceive
    \/ UpdateForwarded

SpecClient == InitClient /\ [][NextClient]_vars

\* the connection of turn t ends: ReadBytes returns an error
ConnectionEnds(t) == \E res \in ReadResults : res.err # "none" /\ ReadStep(t, res)

\* The client reading a long reply: the read loop gets one line after the
\* other while the forwarder and the program's loop run at any speed, or
\* not at all.
NextBacklog ==
    \/ \E v \in Inputs : PressEnter(v)
    \/ \E t \in Turns : \E how \in Outcomes : CmdRun(t, how)
    \/ \E t \in Turns : UpdateCmdMsg(t)
    \/ \E t \in Turns : ReadBacklog(t)
    \/ \E t \in Turns : ConnectionEnds(t)
    \/ ForwardReceive
    \/ UpdateForwarded

SpecBacklog == InitClient /\ [][NextBacklog]_vars

-----------------------------------------------------------------------------
(* SpecEndToEnd: the first turn of the client against the backend *)

\* Turn t of the client talks to request t of the backend; only the first
\* turn is run, so that one connection is active.

\* the user presses Enter for the first message
FirstEnter(v) == turns = 0 /\ PressEnter(v)

\* the POST of the turn's command reaches the backend (the response text is
\* opaque: any message of the backend's set, any length)
RequestArrives(t, message, n) ==
    /\ cmdPc[t] = "run"
    /\ ReqStart(t, message, n)

\* client.Do returns: with the response headers once the backend has
\* answered, with an error if the request never got there
DoReturns(t) ==
    IF reqPc[t] = "new" THEN CmdRun(t, "connect_err") ELSE CmdRun(t, "status_200")

\* ReadBytes returns the next line the backend has written to the body
ReadWire(t) ==
    /\ linesRead < Len(conn[t])
    /\ ReadIteration(t, [line |-> conn[t][linesRead + 1], err |-> "none"])

\* ReadBytes returns io.EOF: the backend has closed the stream and every
\* line has been read
ReadEof(t) ==
    /\ connState[t] = "closed"
    /\ linesRead = Len(conn[t])
    /\ ReadIteration(t, [line |-> Line(FALSE, <<>>, FALSE), err |-> "eof"])

\* ReadBytes returns another error: the connection breaks or the client's
\* Timeout expires
ReadFails(t) ==
    \E res \in ReadResults :
        /\ res.err \notin {"none", "eof"}
        /\ ReadIteration(t, res)

\* the deferred resp.Body.Close() of a read loop that returned early cancels
\* the response stream
BodyClosed(t) == readerPc[t] = "done" /\ ClientGone(t)

\* Update(evt) for the event the forwarder sends, recorded in applied
ApplyForwarded == ApplyHeld /\ applied' = Append(applied, fwdHeld[1])

NextEndToEnd ==
    \/ \E v \in Inputs : FirstEnter(v)
    \/ \E t \in Turns : \E message \in Messages : \E n \in 1..MaxChars :
          RequestArrives(t, message, n)
    \/ \E t \in Turns : DoReturns(t)
    \/ \E t \in Turns : UpdateCmdMsg(t)
    \/ \E t \in Turns : ReqResume(t)
    \/ Tick
    \/ \E t \in Turns : ReadWire(t)
    \/ \E t \in Turns : ReadEof(t)
    \/ \E t \in Turns : ReadFails(t)
    \/ \E t \in Turns : BodyClosed(t)
    \/ ForwardReceive
    \/ ApplyForwarded

SpecEndToEnd == InitClient /\ [][NextEndToEnd]_vars

\* The client under fair scheduling: the Go scheduler runs every goroutine
\* that can run (commands, read loops once ReadBytes returns, the forwarder)
\* and the Bubble Tea loop handles every message sent to it; every
\* connection eventually ends. The user is not obliged to press Enter.
SpecClientFair ==
    /\ SpecClient
    /\ \A t \in Turns : WF_vars(\E how \in Outcomes : CmdRun(t, how))
    /\ \A t \in Turns : WF_vars(UpdateCmdMsg(t))
    /\ \A t \in Turns : WF_vars(ConnectionEnds(t))
    /\ WF_vars(ForwardReceive)
    /\ WF_vars(UpdateForwarded)

-----------------------------------------------------------------------------
(* Claims about the Go bus *)

Full(ch) == Len(ch) >= QueueCap

\* C1 (fan-out isolation): each iteration of Publish's loop offers the event
\* to the next registered channel and to no other; the event is appended to
\* that channel whenever it has free capacity, whatever the state of the
\* channels before it, and the loop ends only after the last channel.
C1_FanOutIsolation ==
    [][\A c \in Callers :
         /\ (callerPc[c] = "pub" /\ callerPc'[c] = "pub"
                /\ callerIdx'[c] # callerIdx[c]) =>
               LET i == callerIdx[c] IN
               /\ callerIdx'[c] = i + 1
               /\ ~Full(busSubs[i]) => busSubs'[i] = Append(busSubs[i], callerEvt[c])
               /\ \A j \in 1..Len(busSubs) : j # i => busSubs'[j] = busSubs[j]
         /\ (callerPc[c] = "pub" /\ callerPc'[c] = "idle") =>
               callerIdx[c] = Len(busSubs) + 1]_vars

\* C1 witness: a Publish has gone through two channels, the first full (the
\* event is not in it), the second holding the event.
C1_Witness ==
    \E c \in Callers :
        /\ callerPc[c] = "pub" /\ callerIdx[c] = 3
        /\ Full(busSubs[1]) /\ callerEvt[c] \notin Range(busSubs[1])
        /\ busSubs[2] # <<>> /\ busSubs[2][Len(busSubs[2])] = callerEvt[c]

\* C2 (non-blocking publish): a caller that holds the mutex is never blocked,
\* whatever the fill of the channels: its next statement (the select on the
\* next channel, or the Unlock once the loop is over) can always execute, and
\* the loop has at most one iteration left per registered channel. So every
\* Publish and every Subscribe releases the mutex and the bus cannot deadlock.
C2_NonBlockingPublish ==
    \A c \in Callers :
        busLock = c =>
            /\ ENABLED HolderStep(c)
            /\ callerPc[c] = "pub" => callerIdx[c] \in 1..(Len(busSubs) + 1)

\* C2 witness: a Publish has completed (mutex free again) after an event was
\* dropped on a full channel.
C2_Witness ==
    /\ busLock = 0
    /\ \E i \in 1..Len(busSubs) :
          /\ Full(busSubs[i])
          /\ published # <<>>
          /\ published[Len(published)] \notin Range(busSubs[i]) \cup Range(received[i])

\* the events subscription i has been handed: dequeued, then still pending
Delivered(i) == received[i] \o busSubs[i]

\* C3 (per-subscriber order): what a subscription dequeues, followed by what
\* is still pending in its channel, is a subsequence of the publish order
\* (the order in which the Publish calls acquired the mutex): every event is
\* a published one and each lies strictly later in the publish order than
\* the one before it, so none is reordered or duplicated.
C3_PerSubscriberOrder ==
    \A i \in 1..Len(busSubs) :
        LET s == Delivered(i) IN
        /\ \A k \in 1..Len(s) :
              /\ s[k].data.n \in 1..Len(published)
              /\ published[s[k].data.n] = s[k]
        /\ \A k \in 1..(Len(s) - 1) : s[k].data.n < s[k + 1].data.n

\* C3 witness: a subscription has dequeued an event and holds a sequence with
\* a gap (an event published in between was dropped).
C3_Witness ==
    \E i \in 1..Len(busSubs) :
        /\ received[i] # <<>>
        /\ \E k \in 1..(Len(busSubs[i]) - 1) :
              busSubs[i][k + 1].data.n > busSubs[i][k].data.n + 1

\* C4 (drop-newest): an iteration of Publish that finds the channel full
\* leaves every channel as it was (the new event is not enqueued, no older
\* event is evicted) and the caller goes on to the next channel as after a
\* successful send: still inside Publish, still holding the mutex.
C4_DropNewest ==
    [][\A c \in Callers :
         (callerPc[c] = "pub" /\ callerIdx[c] \in 1..Len(busSubs)
            /\ callerIdx'[c] # callerIdx[c] /\ Full(busSubs[callerIdx[c]])) =>
               /\ busSubs' = busSubs
               /\ callerPc'[c] = "pub" /\ busLock' = c
               /\ callerIdx'[c] = callerIdx[c] + 1]_vars

\* C4 witness: a Publish has passed a full channel that still starts with
\* the oldest event and does not hold the new one.
C4_Witness ==
    \E c \in Callers : \E i \in 1..Len(busSubs) :
        /\ callerPc[c] = "pub" /\ i < callerIdx[c]
        /\ Len(busSubs[i]) = QueueCap
        /\ Head(busSubs[i]) = published[1]
        /\ callerEvt[c] \notin Range(busSubs[i])

\* C24 (queue capacity): every subscription's channel holds at most
\* QueueCap (20) events in every reachable state.
C24_QueueBounded == \A i \in 1..Len(busSubs) : Len(busSubs[i]) <= QueueCap

\* C24 witness: more events than the capacity have been published, every
\* Publish has returned, and a channel holds exactly QueueCap events.
C24_Witness ==
    /\ busLock = 0
    /\ Len(published) > QueueCap
    /\ \E i \in 1..Len(busSubs) : Len(busSubs[i]) = QueueCap /\ regAt[i] = 0

\* C25 (registry atomicity): at most one caller is inside Subscribe or
\* Publish, and it holds the mutex; the registry only grows, by one
\* subscription at the end, in a step of Subscribe; while a Publish is under
\* way the registry does not change, its loop passes the subscriptions one
\* by one, and it returns only after it has offered the event to every
\* registered subscription.
C25_RegistryAtomic ==
    /\ [](/\ \A c \in Callers : callerPc[c] # "idle" <=> busLock = c
          /\ Cardinality({c \in Callers : callerPc[c] # "idle"}) <= 1)
    /\ [][/\ Len(busSubs') >= Len(busSubs)
          /\ Len(busSubs') > Len(busSubs) =>
                /\ Len(busSubs') = Len(busSubs) + 1
                /\ SubSeq(busSubs', 1, Len(busSubs)) = busSubs
                /\ \E c \in Callers : callerPc[c] = "sub" /\ callerPc'[c] = "idle"
          /\ \A c \in Callers :
                callerPc[c] = "pub" =>
                   /\ Len(busSubs') = Len(busSubs)
                   /\ callerPc'[c] = "idle" => callerIdx[c] = Len(busSubs) + 1
                   /\ callerPc'[c] = "pub" =>
                        callerIdx'[c] \in {callerIdx[c], callerIdx[c] + 1}]_vars

\* C25 witness: a caller is in the middle of a fan-out over two
\* subscriptions while the other caller can enter neither Subscribe nor
\* Publish.
C25_Witness ==
    \E c \in Callers : \E d \in Callers \ {c} :
        /\ callerPc[c] = "pub" /\ Len(busSubs) = 2 /\ callerIdx[c] = 2
        /\ callerPc[d] = "idle"
        /\ ~ENABLED SubscribeLock(d) /\ ~ENABLED PublishLock(d)
        /\ nextSerial <= MaxPublish

\* C27 (no replay): every event a subscription has received or has pending
\* was published (its Publish took the mutex) after the subscription was
\* registered; a new subscription starts with an empty channel.
C27_NoReplay ==
    /\ [](\A i \in 1..Len(busSubs) :
            \A e \in Range(received[i] \o busSubs[i]) :
               /\ e.data.n > regAt[i]
               /\ published[e.data.n] = e)
    /\ [][Len(busSubs') > Len(busSubs) => LastOf(busSubs') = <<>>]_vars

\* C27 witness: a subscription registered after an event had been published
\* holds a later event, while the older subscription still holds the
\* earlier one.
C27_Witness ==
    /\ Len(busSubs) = 2
    /\ regAt[2] >= 1
    /\ busSubs[2] # <<>>
    /\ busSubs[1] # <<>> /\ Head(busSubs[1]).data.n <= regAt[2]
    /\ Head(busSubs[1]) \notin Range(busSubs[2])

-----------------------------------------------------------------------------
(* Claims about the decoder (sendMessage) *)

IsStreamErrText(e) == e.type = "stream_err" /\ e.data.k = "str" /\ e.data.s # ""

\* C9 (non-success status): when the request of a turn fails to connect or
\* its status is not 200, sendMessage returns exactly one message, a
\* stream_err with a text; the turn never has a read loop, nothing is
\* published on the bus by the command, and the command yields nothing more.
C9_NoStreamOnFailure ==
    [][\A t \in Turns :
         /\ (cmdPc[t] = "run" /\ cmdPc'[t] = "returned"
                /\ outcome'[t] # "status_200") =>
               /\ Len(cmdMsg'[t]) = 1 /\ IsStreamErrText(cmdMsg'[t][1])
               /\ busSubs' = busSubs
         /\ outcome'[t] \notin {"none", "status_200"} => readerPc'[t] = "none"
         /\ outcome[t] \notin {"none", "status_200"} =>
               cmdMsg'[t] \in {cmdMsg[t], <<>>}]_vars

\* C9 witness: a turn answered with status 500 has ended with the error in
\* the transcript and no read loop.
C9_Witness ==
    \E t \in Turns :
        /\ outcome[t] = "status_500" /\ cmdMsg[t] = <<>> /\ readerPc[t] = "none"
        /\ mMessages # <<>>
        /\ mMessages[Len(mMessages)] = <<"Error: ", "Server error: 500">>
        /\ ~mStreaming

\* lines of a body that json.Unmarshal rejects
MalformedLines == {GarbageLine, BadTimestampLine}
\* the values of the members of a line
MemberValues(l) == {l.members[i][2] : i \in 1..Len(l.members)}

\* C10 (malformed line): an iteration of the read loop on a line that fails
\* to decode publishes exactly one event, a stream_err with a text that is
\* no value of the line, and the loop goes on reading.
C10_MalformedLine ==
    [][\A t \in Turns :
         (linesRead' = linesRead + 1 /\ lastRead'.turn = t
            /\ lastRead'.res.line \in MalformedLines) =>
               /\ Len(busSubs'[1]) = Len(busSubs[1]) + 1
               /\ SubSeq(busSubs'[1], 1, Len(busSubs[1])) = busSubs[1]
               /\ LET e == busSubs'[1][Len(busSubs'[1])]
                  IN /\ IsStreamErrText(e)
                     /\ e.data \notin MemberValues(lastRead'.res.line)
               /\ readerPc'[t] = "reading"]_vars

\* C10 witness: after a line that failed to decode, the next line of the
\* same connection, a well-formed one, has been decoded and republished.
C10_Witness ==
    /\ lastRead.turn \in Turns
    /\ lastRead.res.line \in EventLines
    /\ Len(busSubs[1]) >= 2
    /\ LET n == Len(busSubs[1])
       IN /\ busSubs[1][n - 1] = Event("stream_err", Str("Invalid JSON"), 0)
          /\ busSubs[1][n] = Unmarshal(lastRead.res.line).evt
          /\ busSubs[1][n].type = "chat.char"
    /\ \A t \in Turns : t # lastRead.turn => readerPc[t] = "none"

\* the step is an iteration of the read loop of turn t
IsReadBy(t) == lastRead'.turn = t /\ Len(busSubs'[1]) > Len(busSubs[1])

\* the event types the backend publishes, and the kinds of data it sends
Vocabulary == {"chat.char", "chat.complete", "tool.start", "tool.output",
               "tool.end", "system.info"}
WireData == {Str("H"), Str(""), Str("out"), Obj("ls"), Obj("pwd"), Nil}

C11_DecoderTerminates ==
    /\ [][\A t \in Turns :
            /\ readerPc[t] = "done" => readerPc'[t] = "done"
            /\ IsReadBy(t) =>
                  /\ readerPc[t] = "reading"
                  /\ lastRead'.res.err = "none" => readerPc'[t] = "reading"
                  /\ lastRead'.res.err # "none" =>
                        /\ readerPc'[t] = "done"
                        /\ busSubs'[1] =
                             Append(busSubs[1],
                                    IF lastRead'.res.err = "eof"
                                    THEN Event("stream_end", Nil, 0)
                                    ELSE Event("stream_err", Str(lastRead'.res.err), 0))]_vars
    /\ \A t \in Turns : (readerPc[t] = "reading") ~> (readerPc[t] = "done")

\* C11 witness: a read loop has stopped on a read error after republishing
\* an event, and the stream_err with the error text is the last event.
C11_Witness ==
    \E t \in Turns :
        /\ readerPc[t] = "done"
        /\ lastRead = [turn |-> t, res |-> [line |-> Line(FALSE, <<>>, FALSE),
                                            err |-> "read error"]]
        /\ Len(busSubs[1]) = 2
        /\ busSubs[1][1].type = "chat.char"
        /\ busSubs[1][2] = Event("stream_err", Str("read error"), 0)

\* C21 (no read timeout on the body): after a success status no iteration of
\* the read loop ends with the client's timeout, and no stream_err with the
\* timeout's text is published.
C21_NoBodyTimeout ==
    [][\A t \in Turns :
         (IsReadBy(t) /\ outcome[t] = "status_200") =>
             /\ lastRead'.res.err # "timeout"
             /\ LastOf(busSubs'[1]) # Event("stream_err", Str("timeout"), 0)]_vars

-----------------------------------------------------------------------------
(* Claims about timestamps *)

NonDecreasing(ts) == \A k \in 1..(Len(ts) - 1) : ts[k] <= ts[k + 1]

\* C5 (timestamps): on each bus the events delivered carry timestamps that
\* do not decrease in publish order: the events in a channel of the Go bus
\* (which are in publish order), the stream_err and stream_end events the
\* client makes up included, and the events published on the backend's bus.
C5_TimestampsNonDecreasing ==
    /\ \A i \in 1..Len(busSubs) :
          NonDecreasing([k \in 1..Len(busSubs[i]) |-> busSubs[i][k].timestamp])
    /\ NonDecreasing([k \in 1..Len(srvLog) |-> srvLog[k].evt.timestamp])

-----------------------------------------------------------------------------
(* Claims about the stream encoder (the /chat handler) *)

\* the records of the events published after the first from ones, up to to
Records(from, to) == [k \in 1..(to - from) |-> EncodeLine(srvLog[from + k].evt)]
IsCompleteRecord(l) == l.members[1] = <<"type", Str("chat.complete")>>

\* C6 (encoder completeness): a request whose connection has not been
\* cancelled subscribed before its first event was published, and its
\* connection holds exactly the records of the events published from then to
\* now (to its chat.complete once the turn is done): one newline-terminated
\* record per event, in publish order, none dropped or duplicated.
C6_EncoderComplete ==
    \A r \in Reqs :
        (reqPc[r] \in {"run", "done"} /\ connState[r] \in {"open", "closed"}) =>
            LET to == IF reqPc[r] = "done" THEN reqWin[r].to ELSE Len(srvLog)
            IN /\ srvLog[reqWin[r].from + 1].by = r
               /\ conn[r] = Records(reqWin[r].from, to)
               /\ \A k \in 1..Len(conn[r]) : conn[r][k].ok /\ conn[r][k].nl
               /\ reqPc[r] = "done" => srvLog[to] = [evt |-> srvLog[to].evt, by |-> r]
                                       /\ srvLog[to].evt.type = "chat.complete"

\* C7 (encoder terminal condition): a chat.complete record on a connection
\* is its last record and the connection is closed.
C7_CompleteIsTerminal ==
    \A r \in Reqs : \A k \in 1..Len(conn[r]) :
        IsCompleteRecord(conn[r][k]) => k = Len(conn[r]) /\ connState[r] = "closed"

\* C8 (encoder failure isolation): a connection that cannot be written to
\* ends only its own forwarding: every connection still open holds a record
\* of every event published since it subscribed, and start() of a request
\* whose own connection is writable never fails.
C8_FailureIsolated ==
    \A r \in Reqs :
        /\ connState[r] # "errored"
        /\ connState[r] = "open" => Len(conn[r]) = Len(srvLog) - reqWin[r].from


\* the events request r has published, and their types
OwnEvents(r) == SelectSeq(srvLog, LAMBDA x : x.by = r)
OwnTypes(r) == [k \in 1..Len(OwnEvents(r)) |-> OwnEvents(r)[k].evt.type]
\* the turn of r is over: start() has returned or thrown
TurnOver(r) == reqPc[r] \in {"done", "failed"}

\* C26 (subscription release): once the turn of a request is over, on the
\* normal path or after a failure, its handler is no longer among the
\* wildcard subscribers; with every turn over only the subscribers from
\* before the turns are left.
C26_HandlerReleased ==
    /\ \A r \in Reqs : TurnOver(r) => r \notin Range(srvAll)
    /\ (\A r \in Reqs : reqPc[r] \notin {"run"}) => srvAll = <<Logger>>

\* a sequence of event types that is the beginning of a turn: the four tool
\* events in order if it is a tool turn, then chat.char events, then
\* possibly chat.complete as the last one
TurnShape(ts) ==
    LET head == <<"system.info", "tool.start", "tool.output", "tool.end">>
        tool == ts # <<>> /\ ts[1] = "system.info"
    IN \A k \in 1..Len(ts) :
         IF tool /\ k <= 4 THEN ts[k] = head[k]
         ELSE \/ ts[k] = "chat.char"
              \/ ts[k] = "chat.complete" /\ k = Len(ts)

\* C28 (producer turn shape): the events a request has published are the
\* beginning of a turn of that shape, and once its turn is over they end
\* with chat.complete.
C28_TurnShape ==
    \A r \in Reqs :
        reqPc[r] \in {"run", "done", "failed"} =>
            /\ TurnShape(OwnTypes(r))
            /\ TurnOver(r) =>
                 OwnTypes(r) # <<>> /\ LastOf(OwnTypes(r)) = "chat.complete"

\* C29 (connection isolation): the records on the connection of a request
\* are the records of events of its own turn, in order.
C29_ConnectionIsolated ==
    \A r \in Reqs :
        /\ Len(conn[r]) <= Len(OwnEvents(r))
        /\ \A k \in 1..Len(conn[r]) : conn[r][k] = EncodeLine(OwnEvents(r)[k].evt)

-----------------------------------------------------------------------------
(* Claims about the reducer (model.Update) *)

\* the messages waiting for Update, and the step that runs Update on e
PendingMsgs == Range(fwdHeld) \cup UNION {Range(cmdMsg[t]) : t \in Turns}
Applies(e) ==
    \/ fwdHeld = <<e>> /\ fwdHeld' = <<>>
    \/ \E t \in Turns : cmdMsg[t] = <<e>> /\ cmdMsg'[t] = <<>>

\* Update applied to the events of a sequence, one after the other
RECURSIVE Feed(_, _)
Feed(m, evts) == IF evts = <<>> THEN m ELSE Feed(UpdateEvent(m, Head(evts)), Tail(evts))

\* the step commits an assistant record
CommitsAssistant == Len(mMessages') = Len(mMessages) + 1 /\ LastOf(mMessages')[1] = "Bot: "

\* C13 (commit on chat.complete): a step that applies chat.complete appends
\* one assistant record with the text of the buffer if the buffer is not
\* empty and nothing otherwise, clears the buffer and leaves the reducer
\* Idle; and chat.char("H"), chat.char("i"), chat.complete fed to the
\* reducer in any Idle state add exactly one assistant record, "Hi".
C13_CommitOnComplete ==
    /\ [](~mStreaming =>
            Feed(Model, <<Event("chat.char", Str("H"), WireTime),
                          Event("chat.char", Str("i"), WireTime),
                          Event("chat.complete", Nil, WireTime)>>)
              = [messages |-> Append(mMessages, <<"Bot: ", "H", "i">>),
                 streaming |-> FALSE, currentResponse |-> <<>>])
    /\ [][\A e \in PendingMsgs :
            (Applies(e) /\ e.type = "chat.complete") =>
                /\ mMessages' = IF mCurrentResponse # <<>>
                                THEN Append(mMessages, <<"Bot: ">> \o mCurrentResponse)
                                ELSE mMessages
                /\ mCurrentResponse' = <<>>
                /\ ~mStreaming']_vars

\* C14 (error short-circuit): a step that applies stream_err clears the
\* buffer and leaves the reducer Idle, and appends the error record with the
\* message the event carries; the only step that commits an assistant
\* record is a chat.complete, with the buffer of that moment, so text that
\* a stream_err discarded is never committed.
C14_ErrorShortCircuit ==
    [][\A e \in PendingMsgs :
         Applies(e) =>
            /\ e.type = "stream_err" =>
                 /\ mCurrentResponse' = <<>>
                 /\ ~mStreaming'
                 /\ e.data.k = "str" =>
                      mMessages' = Append(mMessages, <<"Error: ", e.data.s>>)
            /\ CommitsAssistant =>
                 /\ e.type = "chat.complete"
                 /\ LastOf(mMessages') = <<"Bot: ">> \o mCurrentResponse]_vars

\* C14 witness: a stream_err with a text is about to be applied while text
\* is in the buffer.
C14_Witness ==
    /\ fwdHeld = <<Event("stream_err", Str("read error"), 0)>>
    /\ mCurrentResponse = <<"H">>
    /\ mStreaming
    /\ ENABLED UpdateForwarded

\* C15 (stream_end is terminal): a step that applies stream_end leaves the
\* transcript as it is and the reducer Idle.
C15_StreamEndTerminal ==
    [][\A e \in PendingMsgs :
         (Applies(e) /\ e.type = "stream_end") =>
             mMessages' = mMessages /\ ~mStreaming']_vars

KnownTypes == {"chat.char", "chat.complete", "tool.start", "tool.output",
               "tool.end", "stream_err", "stream_end"}
UnknownEvents ==
    {Event(ty, d, ts) : ty \in {"system.info", "", "tool.error"},
                        d \in WireData, ts \in 0..MaxClock}

\* C16 (unknown types): in every state Update leaves the model (transcript,
\* buffer, Idle/Streaming) as it is for an event of a type it does not
\* know, and so does every step that applies such an event.
C16_UnknownTolerated ==
    /\ [](\A e \in UnknownEvents : UpdateEvent(Model, e) = Model)
    /\ [][\A e \in PendingMsgs :
            (Applies(e) /\ e.type \notin KnownTypes) =>
                UNCHANGED <<mMessages, mStreaming, mCurrentResponse>>]_vars

\* C16 witness: a system.info line was the last one read and its event has
\* been applied, with text in the buffer of a Streaming reducer.
C16_Witness ==
    /\ lastRead.res = [line |-> EncodeLine(Event("system.info", Str("Executing"), WireTime)),
                       err |-> "none"]
    /\ busSubs[1] = <<>> /\ fwdHeld = <<>>
    /\ mCurrentResponse = <<"H">> /\ mStreaming
    /\ mMessages = <<<<"You: ", "hi">>>>

\* what a tool event adds to the buffer: the marker with the command, the
\* fenced block with the output, the separator
ToolPiece(e) ==
    CASE e.type = "tool.start" -> <<"\n\nExecuting: ", e.data.s, "\n">>
      [] e.type = "tool.output" -> <<"[fence]\n", e.data.s, "\n[fence]\n">>
      [] e.type = "tool.end" -> <<"\n">>
WellFormedTool(e) ==
    \/ e.type = "tool.start" /\ e.data.k = "obj"
    \/ e.type = "tool.output" /\ e.data.k = "str"
    \/ e.type = "tool.end"

\* C22 (tool events extend the buffer): a step that applies tool.start with
\* a command object, tool.output with a string, or tool.end to a Streaming
\* reducer leaves the transcript and the Streaming state as they are and
\* makes the buffer the old buffer followed by the event's piece.
C22_ToolEventsAppend ==
    [][\A e \in PendingMsgs :
         (Applies(e) /\ WellFormedTool(e) /\ mStreaming) =>
             /\ mMessages' = mMessages
             /\ mStreaming'
             /\ mCurrentResponse' = mCurrentResponse \o ToolPiece(e)]_vars

\* C22 witness: the output block of a tool stands behind the text that was
\* in the buffer, in a Streaming reducer.
C22_Witness ==
    /\ mStreaming
    /\ mCurrentResponse = <<"H", "[fence]\n", "out", "\n[fence]\n">>
    /\ mMessages = <<<<"You: ", "hi">>>>
    /\ fwdHeld = <<>>

\* the number of messages the step hands to Update
Consumed ==
    (IF fwdHeld # <<>> /\ fwdHeld' = <<>> THEN 1 ELSE 0)
    + Cardinality({t \in Turns : cmdMsg[t] # <<>> /\ cmdMsg'[t] = <<>>})

CommitsUser == Len(mMessages') = Len(mMessages) + 1 /\ LastOf(mMessages')[1] = "You: "

\* C17 (input rejected while Streaming): in every Streaming state Enter,
\* whatever the input holds, is refused and gives the same model; and no
\* step from a Streaming state appends a user record or starts a request.
C17_RejectWhileStreaming ==
    /\ [](mStreaming => \A v \in Inputs :
            ~EnterAccepted(Model, v) /\ UpdateEnter(Model, v) = Model)
    /\ [][mStreaming =>
            /\ ~CommitsUser
            /\ turns' = turns /\ reqBody' = reqBody
            /\ \A t \in Turns : cmdPc'[t] = "run" => cmdPc[t] = "run"]_vars

\* C17 witness: a Streaming reducer in the middle of a turn, where a
\* non-blank submission is refused.
C17_Witness ==
    /\ mStreaming /\ turns = 1
    /\ ~EnterAccepted(Model, " hi ")
    /\ mMessages = <<<<"You: ", "hi">>>>
    /\ mCurrentResponse = <<"H">>
    /\ readerPc[1] = "reading"

\* C18 (input accepted in Idle): the program starts Idle with an empty
\* transcript; in Idle a blank input changes nothing and " hi " appends the
\* user record "hi" and makes the reducer Streaming; the step that accepts
\* it starts exactly one request, for "hi"; user records come from no other
\* step.
C18_AcceptInIdle ==
    /\ mMessages = <<>> /\ ~mStreaming /\ mCurrentResponse = <<>>
    /\ [](~mStreaming =>
            /\ \A v \in {"", "  "} :
                 ~EnterAccepted(Model, v) /\ UpdateEnter(Model, v) = Model
            /\ EnterAccepted(Model, " hi ")
            /\ UpdateEnter(Model, " hi ") =
                 [messages |-> Append(mMessages, <<"You: ", "hi">>),
                  streaming |-> TRUE, currentResponse |-> mCurrentResponse])
    /\ [][/\ CommitsUser => turns' = turns + 1
          /\ turns' # turns =>
               /\ ~mStreaming /\ mStreaming'
               /\ turns' = turns + 1
               /\ mMessages' = Append(mMessages, <<"You: ", "hi">>)
               /\ cmdPc' = [cmdPc EXCEPT ![turns'] = "run"]
               /\ reqBody' = [reqBody EXCEPT ![turns'] = "hi"]]_vars

\* C18 witness: the first submission has been accepted and its request is
\* about to be sent.
C18_Witness ==
    /\ turns = 1 /\ cmdPc[1] = "run" /\ reqBody[1] = "hi"
    /\ mMessages = <<<<"You: ", "hi">>>>
    /\ mStreaming

NonTerminalTypes == {"chat.char", "tool.start", "tool.output", "tool.end"}

\* C19 (non-terminal events only while Streaming): a step that applies a
\* chat.char, tool.start, tool.output or tool.end to an Idle reducer leaves
\* the buffer and the transcript as they are.
C19_IdleIgnoresNonTerminal ==
    [][\A e \in PendingMsgs :
         (Applies(e) /\ e.type \in NonTerminalTypes /\ ~mStreaming) =>
             UNCHANGED <<mCurrentResponse, mMessages>>]_vars

\* C20 (every turn ends): under fair scheduling and with connections that
\* end, a Streaming reducer eventually is Idle again.
C20_EveryTurnEnds == mStreaming ~> ~mStreaming

\* C30 (buffer empty in Idle): in every reachable state an Idle reducer has
\* an empty buffer.
C30_IdleBufferEmpty == ~mStreaming => mCurrentResponse = <<>>

-----------------------------------------------------------------------------
(* Claims about turns and the transcript *)

\* the turns whose read loop is running
LiveLoops == {t \in Turns : readerPc[t] = "reading"}

\* C31 (at most one live read loop): at most one read loop is running, and
\* while one is running Enter is refused whatever the input holds, so that
\* no second loop can be started.
C31_OneLiveReadLoop ==
    /\ Cardinality(LiveLoops) <= 1
    /\ LiveLoops # {} => \A v \in Inputs : ~EnterAccepted(Model, v)

\* new is old, or old with one record appended
Extends(old, new) ==
    \/ new = old
    \/ Len(new) = Len(old) + 1 /\ SubSeq(new, 1, Len(old)) = old

\* C32 (append-only transcript): every step leaves the transcript as it is
\* or appends exactly one record to it; and in every reachable state Update,
\* for any pending message and for Enter with any input, gives a transcript
\* that is the present one or the present one with one record appended.
C32_TranscriptAppendOnly ==
    /\ [][Extends(mMessages, mMessages')]_vars
    /\ [](\A e \in PendingMsgs : Extends(mMessages, UpdateEvent(Model, e).messages))
    /\ [](\A v \in Inputs : Extends(mMessages, UpdateEnter(Model, v).messages))

\* C32 witness: a reply has been committed after the user record of its
\* turn.
C32_Witness ==
    /\ Len(mMessages) = 2
    /\ mMessages[1] = <<"You: ", "hi">>
    /\ mMessages[2] = <<"Bot: ", "H">>
    /\ ~mStreaming

\* a record of the transcript written for a user message
IsUserRecord(rec) == rec[1] = "You: "

\* C33 (one reply per turn): no two records that are not user records
\* follow each other in the transcript.
C33_OneReplyPerTurn ==
    \A k \in 1..(Len(mMessages) - 1) :
        IsUserRecord(mMessages[k]) \/ IsUserRecord(mMessages[k + 1])

-----------------------------------------------------------------------------
(* Claims about the decoder and a slow reducer *)

\* the step is an iteration of the read loop on a line
ReadsLine == linesRead' = linesRead + 1

\* C35 (no backpressure from the local bus): a running read loop can always
\* do its next iteration, whatever the local queue holds; an iteration that
\* finds the queue full leaves the queue, the event the forwarder holds, the
\* reducer's model and the commands' messages as they are (the event is
\* dropped and nothing is published or sent in its place), and the loop
\* goes on reading.
C35_NoBackpressure ==
    /\ [](\A t \in Turns :
            readerPc[t] = "reading" =>
               /\ linesRead < MaxBacklog => ENABLED ReadBacklog(t)
               /\ ENABLED ConnectionEnds(t))
    /\ [][ReadsLine /\ Full(busSubs[1]) =>
            /\ busSubs' = busSubs
            /\ fwdHeld' = fwdHeld
            /\ Model' = Model
            /\ cmdMsg' = cmdMsg
            /\ readerPc' = readerPc]_vars

\* C35 witness: the reducer has applied nothing, the read loop has read more
\* lines than the queue holds and is still reading.
C35_Witness ==
    /\ Full(busSubs[1])
    /\ linesRead = QueueCap + 2
    /\ fwdHeld = <<>>
    /\ mCurrentResponse = <<>>
    /\ mStreaming
    /\ readerPc[1] = "reading"

-----------------------------------------------------------------------------
(* Claims about one turn from the producer to the transcript *)

\* a is b with some elements left out
RECURSIVE IsSubseq(_, _)
IsSubseq(a, b) ==
    IF a = <<>> THEN TRUE
    ELSE IF b = <<>> THEN FALSE
    ELSE IF Head(a) = Head(b) THEN IsSubseq(Tail(a), Tail(b))
    ELSE IsSubseq(a, Tail(b))

\* the events request r has published, in order
PublishedBy(r) == [k \in 1..Len(OwnEvents(r)) |-> OwnEvents(r)[k].evt]
\* the events of a sequence that came over the wire (stream_err and
\* stream_end are the decoder's own)
WireEvents(q) == SelectSeq(q, LAMBDA e : e.type \notin {"stream_err", "stream_end"})
\* the strings the events of a sequence carry
HasText(e) == e.data.k \in {"str", "obj"}
TextOf(q) == LET c == SelectSeq(q, HasText) IN [k \in 1..Len(c) |-> c[k].data.s]
\* the pieces the reducer's format strings add around the payloads
Decorations == {"Bot: ", "\n\nExecuting: ", "\n", "[fence]\n", "\n[fence]\n"}
\* the payloads in a record of the transcript
Payloads(rec) == SelectSeq(rec, LAMBDA x : x \notin Decorations)

====
